---- MODULE Spec2Model ----
(***************************************************************************)
(* Trip simulation with Hours-of-Service rules (core/services.py).         *)
(*                                                                         *)
(* One behaviour of the model is one call of simulate_trip(route_data,     *)
(* current_cycle_used), made directly or by plan_trip (core/views.py) for  *)
(* one request.  Hours and miles are Python floats in the source;          *)
(* here a float is an integer count of 2^-FracBits units, and every float  *)
(* operation is the exact operation followed by round-to-nearest-even to   *)
(* SigBits significant bits (IEEE-754 double has 53).  Datetimes are exact *)
(* counts of the same unit measured from datetime.now(); datetime.max is   *)
(* MaxHours after it.                                                      *)
(***************************************************************************)
EXTENDS Integers, Sequences, FiniteSets, TLC

\* ---------------------------------------------------------------- bounds
FracBits == 8        \* a float is a multiple of 2^-FracBits
SigBits == 12        \* significand width of a float
MaxHours == 150      \* datetime.max - datetime.now(), in hours
MaxActivities == 40  \* activities that fit in memory

Unit == 2 ^ FracBits
MaxTime == MaxHours * Unit

\* ------------------------------------------------------------- HOS_RULES
PICKUP_TIME == 1 * Unit
DROPOFF_TIME == 1 * Unit
CYCLE_LIMIT == 70 * Unit
RESET_DURATION == 34 * Unit
MAX_DRIVING_HOURS_PER_DAY == 11 * Unit
MAX_ON_DUTY_HOURS_PER_DAY == 14 * Unit
MANDATORY_OFF_DUTY == 10 * Unit
REST_BREAK_DURATION == Unit \div 2
MILES_PER_FUELING == 1000 * Unit
FUELING_TIME == Unit \div 2
AVERAGE_SPEED == 60 * Unit
BREAK_THRESHOLD == 8 * Unit      \* the literal 8 of simulate_driving
DRIVING_STEP == 1 * Unit         \* the literal 1.0 of simulate_driving

\* ------------------------------------------------------ float arithmetic
Abs(x) == IF x < 0 THEN 0 - x ELSE x
Min_larger(a, b) == IF a <= b THEN b ELSE a

Min(a, b) == IF a <= b THEN a ELSE b

\* n/d rounded to the nearest integer, ties to even (n >= 0, d > 0)
RoundHalfEven(n, d) ==
    LET q == n \div d
        r == n % d
    IN  IF 2 * r < d THEN q
        ELSE IF 2 * r > d THEN q + 1
        ELSE IF q % 2 = 0 THEN q ELSE q + 1

\* the spacing of floats around the magnitude ip: the least power of two g
\* with ip \div g < 2^SigBits
RECURSIVE Spacing(_, _)
Spacing(ip, g) == IF ip \div g < 2 ^ SigBits THEN g ELSE Spacing(ip, 2 * g)

\* the float nearest to the rational n/d (d > 0)
RoundRat(n, d) ==
    LET a == Abs(n)
        g == Spacing(a \div d, 1)
        m == g * RoundHalfEven(a, d * g)
    IN  IF n < 0 THEN 0 - m ELSE m

FAdd(a, b) == RoundRat(a + b, 1)
FSub(a, b) == RoundRat(a - b, 1)
FMul(a, b) == RoundRat(a * b, Unit)
FDiv(a, b) == RoundRat(a * Unit, b)

\* ----------------------------------------------------------- route data
NoLocation == << >>              \* Python None
NoReason == ""                   \* Python None

MilesPerDegree == 69 * Unit
\* geopy's geodesic(p, q).miles, on points <<lon, lat>> of a coarse grid
geodesic(p, q) == MilesPerDegree * (Abs(p[1] - q[1]) + Abs(p[2] - q[2]))

RECURSIVE precompute_distances(_)
precompute_distances(geometry) ==
    IF Len(geometry) <= 1 THEN << 0 >>
    ELSE LET n == Len(geometry)
             prev == precompute_distances(SubSeq(geometry, 1, n - 1))
         IN  Append(prev, FAdd(prev[n - 1], geodesic(geometry[n - 1], geometry[n])))

get_location_at_distance_end(cumulative, geometry, target) ==
    LET hits == { i \in 1 .. (Len(cumulative) - 1) :
                    cumulative[i] <= target /\ target <= cumulative[i + 1] }
    IN  IF hits # {}
        THEN geometry[(CHOOSE i \in hits : \A j \in hits : i <= j) + 1]
        ELSE geometry[Len(geometry)]

get_location_at_distance(cumulative, geometry, target) ==
    LET hits == { i \in 1 .. (Len(cumulative) - 1) :
                    cumulative[i] <= target /\ target <= cumulative[i + 1] }
    IN  IF hits # {}
        THEN geometry[CHOOSE i \in hits : \A j \in hits : i <= j]
        ELSE geometry[Len(geometry)]

\* ------------------------------------------------------------ inputs
GeometryOne == << <<0, 0>> >>
GeometryThree == << <<0, 0>>, <<5, 0>>, <<5, 12>> >>
Geometries == { << >>, GeometryOne, GeometryThree }
\* routes as <<miles, half hours>>; on each of them the reduced floats round
\* the way doubles do: the run ends the same way with the same stops
Routes == { <<600, 20>>, <<900, 30>>, <<2000, 50>>, <<2000, 20>>, <<900, 22>>,
            <<600, 17>>, <<600, 19>>, <<900, 18>>, <<600, 26>>, <<900, 26>>,
            <<600, 6>>, <<2000, 18>>, <<450, 22>>, <<900, 34>>, <<100, 50>>,
            <<2000, 32>>, <<0, 20>>, <<600, 0>>, <<600, -4>> }
CycleUsedHours == { 0, 30, 58, 65, 70 }

\* a location of a request: the key is missing, or its value is "lat,lon"
\* in range, "lat,lon" out of range, text that float() rejects, or not text
LocationValues == { "missing", "ok", "out_of_range", "not_a_number", "not_text" }
\* the current_cycle_used of a request: absent, or the text of a number, or
\* text that float() rejects
CycleValues == { "absent", "0", "70", "abc" }
Requests == [ locations : [ 1 .. 3 -> LocationValues ], cycle : CycleValues ]
NoRequest == [ locations |-> << >>, cycle |-> "absent" ]  \* no request: a direct call
NoResponse == [ status |-> 0, body |-> << >> ]

VARIABLES
    pc,                  \* position in simulate_trip
    route_data,          \* the caller's dict
    current_cycle_used,  \* argument of simulate_trip
    total_distance,      \* locals of simulate_trip
    total_duration,
    geometry,
    cumulative_distances,
    trip,                \* the TripState object
    fueling_stops,       \* local of simulate_driving
    request,             \* request.data of plan_trip
    response             \* the Response plan_trip returns

vars == << pc, route_data, current_cycle_used, total_distance, total_duration,
           geometry, cumulative_distances, trip, fueling_stops, request,
           response >>

\* ------------------------------------------------------------ TripState
TripState(start_time, cycle_used, distance, duration) ==
    [ current_time |-> start_time,
      start_time |-> start_time,
      cycle_hours |-> cycle_used,
      daily_driving_hours |-> 0,
      daily_on_duty_hours |-> 0,
      driving_since_break |-> 0,
      distance_traveled |-> 0,
      remaining_distance |-> distance,
      remaining_duration |-> duration,
      total_duration |-> 0,
      activities |-> << >>,
      stops |-> << >>,
      average_speed |-> IF duration > 0 THEN FDiv(distance, duration)
                        ELSE AVERAGE_SPEED ]

NoTrip == TripState(0, 0, 0, 0)

\* line 76 raises OverflowError past datetime.max; the lists cannot grow
\* beyond memory (MemoryError)
CanAdd(t, duration) ==
    /\ t.current_time + duration <= MaxTime
    /\ Len(t.activities) < MaxActivities

\* the counters an activity of the given type adds its duration to
Counted(activity_type) ==
    IF activity_type = "DRIVING"
    THEN { "daily_driving_hours", "daily_on_duty_hours",
           "driving_since_break", "cycle_hours" }
    ELSE IF activity_type \in { "ON_DUTY_NOT_DRIVING", "OFF_DUTY" }
    THEN { "daily_on_duty_hours", "cycle_hours" }
    ELSE { }

add_activity(t, duration, activity_type, stop_reason, location) ==
    LET end_time == t.current_time + duration
        bump(f) == IF f \in Counted(activity_type)
                   THEN FAdd(t[f], duration) ELSE t[f]
    IN  [ t EXCEPT
            !.activities = Append(@, [ start_time |-> t.current_time,
                                       end_time |-> end_time,
                                       activity_type |-> activity_type ]),
            !.stops = IF stop_reason # NoReason /\ location # NoLocation
                      THEN Append(@, [ time |-> FSub(t.current_time, t.start_time),
                                       location |-> location,
                                       reason |-> stop_reason ])
                      ELSE @,
            !.current_time = end_time,
            !.total_duration = FAdd(@, duration),
            !.daily_driving_hours = bump("daily_driving_hours"),
            !.daily_on_duty_hours = bump("daily_on_duty_hours"),
            !.driving_since_break = bump("driving_since_break"),
            !.cycle_hours = bump("cycle_hours") ]

reset_daily_hours(t) ==
    [ t EXCEPT !.daily_driving_hours = 0,
               !.daily_on_duty_hours = 0,
               !.driving_since_break = 0 ]

handle_pickup(t) ==
    add_activity(t, PICKUP_TIME, "ON_DUTY_NOT_DRIVING", NoReason, NoLocation)

handle_dropoff_as_rest(t) ==
    add_activity(t, REST_BREAK_DURATION, "OFF_DUTY", NoReason, NoLocation)

handle_dropoff(t) ==
    add_activity(t, DROPOFF_TIME, "ON_DUTY_NOT_DRIVING", NoReason, NoLocation)

\* the conditions of simulate_driving, in the order the loop tests them
NeedsCycleReset_daily(t) == t.daily_on_duty_hours >= CYCLE_LIMIT

NeedsCycleReset(t) == t.cycle_hours >= CYCLE_LIMIT

NeedsDailyReset_on_duty_only(t) ==
    t.daily_on_duty_hours >= MAX_ON_DUTY_HOURS_PER_DAY

NeedsDailyReset(t) ==
    \/ t.daily_driving_hours >= MAX_DRIVING_HOURS_PER_DAY
    \/ t.daily_on_duty_hours >= MAX_ON_DUTY_HOURS_PER_DAY

NeedsRestBreak_strict(t) == t.driving_since_break > BREAK_THRESHOLD

NeedsRestBreak(t) == t.driving_since_break >= BREAK_THRESHOLD

\* int(distance_traveled / MILES_PER_FUELING): the float quotient of a value
\* below a multiple of 1000 never rounds up to the next integer
new_fueling_stops(t) == t.distance_traveled \div MILES_PER_FUELING

NeedsFueling_ge(t) == new_fueling_stops(t) >= fueling_stops

NeedsFueling(t) == new_fueling_stops(t) > fueling_stops

InLoop == pc = "driving" /\ trip.remaining_distance > 0

\* ------------------------------------------------------------------ Init
\* a route descriptor before simulate_trip: present says that it holds the
\* keys geometry, distance and duration; enriched says that it holds the
\* keys activities and start_time
Descriptor(present, g, r) ==
    [ present |-> present,
      geometry |-> g,
      distance |-> r[1] * Unit,
      duration |-> r[2] * (Unit \div 2),
      stops |-> << >>,
      activities |-> << >>,
      enriched |-> FALSE ]

NoRoute == Descriptor(FALSE, << >>, << 0, 0 >>)  \* route_data not bound yet

Init ==
    /\ \/ /\ pc = "called"
          /\ request = NoRequest
          /\ \E present \in BOOLEAN, g \in Geometries, r \in Routes :
                route_data = Descriptor(present, g, r)
          /\ current_cycle_used \in { c * Unit : c \in CycleUsedHours }
       \/ /\ pc = "request"
          /\ request \in Requests
          /\ route_data = NoRoute
          /\ current_cycle_used = 0
    /\ response = NoResponse
    /\ total_distance = 0
    /\ total_duration = 0
    /\ geometry = << >>
    /\ cumulative_distances = << >>
    /\ trip = NoTrip
    /\ fueling_stops = 0

\* --------------------------------------------------------- simulate_trip
Accepted_no_duration(rd) ==
    /\ rd.present
    /\ rd.geometry # << >>
    /\ rd.distance > 0

Accepted(rd) ==
    /\ rd.present
    /\ rd.geometry # << >>
    /\ rd.distance > 0
    /\ rd.duration > 0

\* lines 188-195 raise ValueError
Reject ==
    /\ pc = "called"
    /\ ~Accepted(route_data)
    /\ pc' = "failed"
    /\ UNCHANGED << route_data, current_cycle_used, total_distance,
                    total_duration, geometry, cumulative_distances, trip,
                    fueling_stops, request, response >>

Start_unchecked ==
    /\ pc = "called"
    /\ total_distance' = route_data.distance
    /\ total_duration' = route_data.duration
    /\ geometry' = route_data.geometry
    /\ cumulative_distances' = precompute_distances(route_data.geometry)
    /\ trip' = TripState(0, current_cycle_used, route_data.distance,
                         route_data.duration)
    /\ pc' = "pickup"
    /\ UNCHANGED << route_data, current_cycle_used, fueling_stops, request,
                    response >>

\* lines 191-203
Start ==
    /\ pc = "called"
    /\ Accepted(route_data)
    /\ total_distance' = route_data.distance
    /\ total_duration' = route_data.duration
    /\ geometry' = route_data.geometry
    /\ cumulative_distances' = precompute_distances(route_data.geometry)
    /\ trip' = TripState(0, current_cycle_used, route_data.distance,
                         route_data.duration)
    /\ pc' = "pickup"
    /\ UNCHANGED << route_data, current_cycle_used, fueling_stops, request,
                    response >>

\* one call of add_activity and what follows it, or the exception it raises
Record(before, duration, after, nextpc) ==
    IF CanAdd(before, duration)
    THEN trip' = after /\ pc' = nextpc
    ELSE trip' = before /\ pc' = "failed"

Frame == UNCHANGED << route_data, current_cycle_used, total_distance,
                      total_duration, geometry, cumulative_distances, request,
                      response >>

HandlePickup ==
    /\ pc = "pickup"
    /\ Record(trip, PICKUP_TIME, handle_pickup(trip), "driving")
    /\ fueling_stops' = 0
    /\ Frame

CycleReset ==
    /\ InLoop
    /\ NeedsCycleReset(trip)
    /\ Record(trip, RESET_DURATION,
              reset_daily_hours(add_activity(trip, RESET_DURATION, "OFF_DUTY",
                                             "Cycle reset", NoLocation)),
              "driving")
    /\ UNCHANGED fueling_stops
    /\ Frame

DailyReset ==
    /\ InLoop
    /\ ~NeedsCycleReset(trip)
    /\ NeedsDailyReset(trip)
    /\ Record(trip, MANDATORY_OFF_DUTY,
              reset_daily_hours(add_activity(trip, MANDATORY_OFF_DUTY, "OFF_DUTY",
                                             "Daily limit reached", NoLocation)),
              "driving")
    /\ UNCHANGED fueling_stops
    /\ Frame

RestBreak ==
    /\ InLoop
    /\ ~NeedsCycleReset(trip)
    /\ ~NeedsDailyReset(trip)
    /\ NeedsRestBreak(trip)
    /\ LET location == get_location_at_distance(cumulative_distances, geometry,
                                                trip.distance_traveled)
           added == add_activity(trip, REST_BREAK_DURATION, "OFF_DUTY",
                                 "30-minute rest break", location)
       IN  Record(trip, REST_BREAK_DURATION,
                  [ added EXCEPT !.driving_since_break = 0 ], "driving")
    /\ UNCHANGED fueling_stops
    /\ Frame

Fueling ==
    /\ InLoop
    /\ ~NeedsCycleReset(trip)
    /\ ~NeedsDailyReset(trip)
    /\ ~NeedsRestBreak(trip)
    /\ NeedsFueling(trip)
    /\ LET location == get_location_at_distance(cumulative_distances, geometry,
                                                trip.distance_traveled)
       IN  Record(trip, FUELING_TIME,
                  add_activity(trip, FUELING_TIME, "ON_DUTY_NOT_DRIVING",
                               "Fueling stop", location),
                  "driving")
    /\ fueling_stops' = IF CanAdd(trip, FUELING_TIME)
                        THEN new_fueling_stops(trip) ELSE fueling_stops
    /\ Frame

\* lines 135-139: the movement of one driving segment
Advance(t) ==
    LET driving_time == Min(DRIVING_STEP, t.remaining_duration)
        distance_segment == FMul(driving_time, t.average_speed)
    IN  [ t EXCEPT !.distance_traveled = FAdd(@, distance_segment),
                   !.remaining_distance = FSub(@, distance_segment),
                   !.remaining_duration = FSub(@, driving_time) ]

Drive ==
    /\ InLoop
    /\ ~NeedsCycleReset(trip)
    /\ ~NeedsDailyReset(trip)
    /\ ~NeedsRestBreak(trip)
    /\ ~NeedsFueling(trip)
    /\ LET driving_time == Min(DRIVING_STEP, trip.remaining_duration)
           moved == Advance(trip)
       IN  Record(moved, driving_time,
                  add_activity(moved, driving_time, "DRIVING", NoReason, NoLocation),
                  "driving")
    /\ UNCHANGED fueling_stops
    /\ Frame

HandleDropoff ==
    /\ pc = "driving"
    /\ ~(trip.remaining_distance > 0)
    /\ Record(trip, DROPOFF_TIME, handle_dropoff(trip), "dropped")
    /\ UNCHANGED fueling_stops
    /\ Frame

Return_raw_duration ==
    /\ pc = "dropped"
    /\ route_data' = [ route_data EXCEPT !.stops = trip.stops,
                                         !.activities = trip.activities,
                                         !.enriched = TRUE ]
    /\ pc' = "returned"
    /\ UNCHANGED << current_cycle_used, total_distance, total_duration,
                    geometry, cumulative_distances, trip, fueling_stops,
                    request, response >>

\* lines 209-213
Return ==
    /\ pc = "dropped"
    /\ route_data' = [ route_data EXCEPT !.stops = trip.stops,
                                         !.activities = trip.activities,
                                         !.enriched = TRUE,
                                         !.duration = trip.total_duration ]
    /\ pc' = "returned"
    /\ UNCHANGED << current_cycle_used, total_distance, total_duration,
                    geometry, cumulative_distances, trip, fueling_stops,
                    request, response >>

\* -------------------------------------------- plan_trip (core/views.py)
\* float(text) of line 35, on the texts a request carries
ParsedCycle == [ t \in { "absent", "0", "70" } |->
                   IF t = "70" THEN 70 * Unit ELSE 0 ]

HasFields(req) == \A i \in 1 .. 3 : req.locations[i] # "missing"

\* lines 32-35: the first conversion that raises decides the exception
RECURSIVE ParseLocations(_, _)
ParseLocations(req, i) ==
    IF i > 3 THEN "ok"
    ELSE IF req.locations[i] = "not_text" THEN "AttributeError"
    ELSE IF req.locations[i] = "not_a_number" THEN "ValueError"
    ELSE ParseLocations(req, i + 1)

Parse(req) ==
    IF ParseLocations(req, 1) # "ok" THEN ParseLocations(req, 1)
    ELSE IF req.cycle \notin DOMAIN ParsedCycle THEN "ValueError"
    ELSE "ok"

\* lines 38-40
InRange(req) == \A i \in 1 .. 3 : req.locations[i] # "out_of_range"

ErrorResponse(status, error) == [ status |-> status, body |-> [ error |-> error ] ]

Answer(r) ==
    /\ response' = r
    /\ pc' = "responded"
    /\ UNCHANGED << route_data, current_cycle_used, total_distance,
                    total_duration, geometry, cumulative_distances, trip,
                    fueling_stops, request >>

\* lines 29-30
MissingFields ==
    /\ pc = "request"
    /\ ~HasFields(request)
    /\ Answer(ErrorResponse(400, "Missing required fields"))

\* lines 32-35 raise ValueError, caught at line 65
InvalidRequestData ==
    /\ pc = "request"
    /\ HasFields(request)
    /\ Parse(request) = "ValueError"
    /\ Answer(ErrorResponse(400, "Invalid request data"))

\* lines 32-34 raise AttributeError, caught at line 68
InternalServerError ==
    /\ pc = "request"
    /\ HasFields(request)
    /\ Parse(request) = "AttributeError"
    /\ Answer(ErrorResponse(500, "Internal server error"))

InvalidCoordinates ==
    /\ pc = "request"
    /\ HasFields(request)
    /\ Parse(request) = "ok"
    /\ ~InRange(request)
    /\ Answer(ErrorResponse(400, "Invalid coordinates"))

WellFormed(req) == HasFields(req) /\ Parse(req) = "ok" /\ InRange(req)

\* lines 44-46: get_route returns None
GetRouteFails ==
    /\ pc = "request"
    /\ WellFormed(request)
    /\ Answer(ErrorResponse(400, "Failed to get route"))

\* lines 44-49: get_route returns a descriptor and simulate_trip is called
GetRoute ==
    /\ pc = "request"
    /\ WellFormed(request)
    /\ \E g \in Geometries, r \in Routes : route_data' = Descriptor(TRUE, g, r)
    /\ current_cycle_used' = ParsedCycle[request.cycle]
    /\ pc' = "called"
    /\ UNCHANGED << total_distance, total_duration, geometry,
                    cumulative_distances, trip, fueling_stops, request,
                    response >>

\* lines 52-63, and line 65 for the KeyError of a key route_data lacks
Respond ==
    /\ pc = "returned"
    /\ request # NoRequest
    /\ Answer(IF "daily_logs" \in DOMAIN route_data
              THEN [ status |-> 200,
                     body |-> [ route |-> route_data.geometry,
                                distance |-> route_data.distance,
                                duration |-> route_data.duration,
                                stops |-> route_data.stops,
                                locations |-> request.locations,
                                daily_logs |-> route_data.daily_logs,
                                activities |-> route_data.activities ] ]
              ELSE ErrorResponse(400, "Invalid request data"))

\* line 49 raises ValueError, caught at line 65
RespondFailure ==
    /\ pc = "failed"
    /\ request # NoRequest
    /\ Answer(ErrorResponse(400, "Invalid request data"))

Next ==
    \/ MissingFields
    \/ InvalidRequestData
    \/ InternalServerError
    \/ InvalidCoordinates
    \/ GetRouteFails
    \/ GetRoute
    \/ Respond
    \/ RespondFailure
    \/ Reject
    \/ Start
    \/ HandlePickup
    \/ CycleReset
    \/ DailyReset
    \/ RestBreak
    \/ Fueling
    \/ Drive
    \/ HandleDropoff
    \/ Return

Spec == Init /\ [][Next]_vars

\* ------------------------------------------------------------ properties
Last(s) == s[Len(s)]
Duration(a) == a.end_time - a.start_time
StopsWith(stops, reason) == { i \in DOMAIN stops : stops[i].reason = reason }
ValidInput == Accepted(route_data) /\ current_cycle_used >= 0
Recorded == pc' # "failed" /\ Len(trip'.activities) = Len(trip.activities) + 1

\* hours of DRIVING in the activities that end no later than time
RECURSIVE DrivingUntil(_, _)
DrivingUntil(acts, time) ==
    IF acts = << >> THEN 0
    ELSE (IF acts[1].activity_type = "DRIVING" /\ acts[1].end_time <= time
          THEN Duration(acts[1]) ELSE 0)
         + DrivingUntil(Tail(acts), time)

\* C1: on valid input (non-empty geometry, distance > 0, duration > 0,
\* cycle hours >= 0) the run leaves the driving loop, records the dropoff
\* and returns; it never ends in the failure that a non-converging loop
\* runs into.
C1_ValidRunCompletes == ValidInput => pc # "failed"

\* C2: a cycle-reset step records one OFF_DUTY activity of RESET_DURATION
\* and leaves cycle_hours and the three daily/break counters at 0.
C2_CycleResetClears ==
    [][ (CycleReset /\ Recorded) =>
          /\ Last(trip'.activities).activity_type = "OFF_DUTY"
          /\ Duration(Last(trip'.activities)) = RESET_DURATION
          /\ trip'.cycle_hours = 0
          /\ trip'.daily_driving_hours = 0
          /\ trip'.daily_on_duty_hours = 0
          /\ trip'.driving_since_break = 0 ]_vars

\* C3: the run on distance = 900 mi, duration = 15 h, cycle used = 65 h ends
\* by returning a descriptor that holds an OFF_DUTY activity of exactly
\* RESET_DURATION and a duration above the raw 15 h.
C3_ScenarioB ==
    ( /\ total_distance = 900 * Unit
      /\ total_duration = 15 * Unit
      /\ current_cycle_used = 65 * Unit
      /\ pc \in { "returned", "failed" } )
    => /\ pc = "returned"
       /\ \E i \in DOMAIN route_data.activities :
            /\ route_data.activities[i].activity_type = "OFF_DUTY"
            /\ Duration(route_data.activities[i]) = RESET_DURATION
       /\ route_data.duration > total_duration

\* C4: a step that records an OFF_DUTY activity leaves cycle_hours as it
\* was, and leaves daily_on_duty_hours as it was unless the step is a reset
\* (which clears it).
C4_OffDutyNotCounted ==
    [][ (Recorded /\ Last(trip'.activities).activity_type = "OFF_DUTY") =>
          /\ trip'.cycle_hours = trip.cycle_hours
          /\ trip'.daily_on_duty_hours \in { trip.daily_on_duty_hours, 0 }
          /\ (RestBreak =>
                trip'.daily_on_duty_hours = trip.daily_on_duty_hours) ]_vars

\* C5: every step that records a DRIVING activity starts with
\* daily_driving_hours <= 11 h and daily_on_duty_hours <= 14 h.
C5_DrivingWithinDailyLimits ==
    [][ Drive =>
          /\ trip.daily_driving_hours <= MAX_DRIVING_HOURS_PER_DAY
          /\ trip.daily_on_duty_hours <= MAX_ON_DUTY_HOURS_PER_DAY ]_vars

\* a DRIVING activity that started one segment below the daily driving limit
\* has just been recorded
C5_Witness ==
    /\ pc = "driving"
    /\ trip.activities # << >>
    /\ Last(trip.activities).activity_type = "DRIVING"
    /\ trip.daily_driving_hours = MAX_DRIVING_HOURS_PER_DAY

\* C6: every step that records a DRIVING activity or a fueling stop starts
\* with cycle_hours <= 70 h, and a loop iteration that starts with
\* cycle_hours >= 70 h records the 34 h cycle-reset OFF_DUTY activity (or
\* aborts the run), never driving or fueling.
C6_CycleGate ==
    [][ /\ (Drive \/ Fueling) => trip.cycle_hours <= CYCLE_LIMIT
        /\ (InLoop /\ trip.cycle_hours >= CYCLE_LIMIT) =>
             \/ pc' = "failed"
             \/ /\ Recorded
                /\ Last(trip'.activities).activity_type = "OFF_DUTY"
                /\ Duration(Last(trip'.activities)) = RESET_DURATION ]_vars

\* the limit was reached while driving and the reset has been recorded
C6_Witness ==
    /\ pc = "driving"
    /\ Len(trip.activities) >= 2
    /\ Last(trip.activities).activity_type = "OFF_DUTY"
    /\ Duration(Last(trip.activities)) = RESET_DURATION
    /\ trip.activities[Len(trip.activities) - 1].activity_type = "DRIVING"

\* C7: once the input is accepted, the activities form a contiguous
\* timeline from start_time: each ends where the next starts, each lasts
\* strictly more than nothing, and current_time is the end of the last.
C7_Timeline ==
    LET a == trip.activities
    IN  pc # "called" =>
          /\ a # << >> => a[1].start_time = trip.start_time
          /\ \A i \in 1 .. (Len(a) - 1) : a[i].end_time = a[i + 1].start_time
          /\ \A i \in DOMAIN a : a[i].end_time > a[i].start_time
          /\ trip.current_time =
               (IF a = << >> THEN trip.start_time ELSE Last(a).end_time)

\* C8: in a returned result the first activity is the 1 h pickup
\* (ON_DUTY_NOT_DRIVING), the last is the 1 h dropoff (ON_DUTY_NOT_DRIVING),
\* every DRIVING activity lies between them and every stop is timed between
\* the end of the pickup and the start of the dropoff.
C8_PickupFirstDropoffLast ==
    pc = "returned" =>
      LET a == route_data.activities
          n == Len(a)
      IN  /\ n >= 2
          /\ a[1].activity_type = "ON_DUTY_NOT_DRIVING"
          /\ a[1].start_time = trip.start_time
          /\ Duration(a[1]) = PICKUP_TIME
          /\ a[n].activity_type = "ON_DUTY_NOT_DRIVING"
          /\ Duration(a[n]) = DROPOFF_TIME
          /\ \A i \in DOMAIN a :
               a[i].activity_type = "DRIVING" =>
                 /\ 1 < i /\ i < n
                 /\ a[1].end_time <= a[i].start_time
                 /\ a[i].end_time <= a[n].start_time
          /\ \A j \in DOMAIN route_data.stops :
               /\ a[1].end_time <= route_data.stops[j].time
               /\ route_data.stops[j].time <= a[n].start_time

\* a result with driving and at least one stop between pickup and dropoff
C8_Witness ==
    /\ pc = "returned"
    /\ Len(route_data.activities) > 3
    /\ route_data.stops # << >>

\* C9: a returned result for cycle used = 0 and a raw duration above 8 h and
\* at most 11 h holds exactly one "30-minute rest break" stop, placed after
\* exactly 8 h of driving, and reports a duration above the raw duration.
C9_OneRestBreak ==
    ( /\ pc = "returned"
      /\ current_cycle_used = 0
      /\ total_duration > BREAK_THRESHOLD
      /\ total_duration <= MAX_DRIVING_HOURS_PER_DAY )
    => LET breaks == StopsWith(route_data.stops, "30-minute rest break")
       IN  /\ Cardinality(breaks) = 1
           /\ \A i \in breaks :
                DrivingUntil(route_data.activities,
                             trip.start_time + route_data.stops[i].time)
                  = BREAK_THRESHOLD
           /\ route_data.duration > total_duration

\* the returned result of distance = 600 mi, duration = 10 h, cycle used = 0
C9_Witness ==
    /\ pc = "returned"
    /\ current_cycle_used = 0
    /\ total_distance = 600 * Unit
    /\ total_duration = 10 * Unit
    /\ StopsWith(route_data.stops, "30-minute rest break") # { }

\* C10: a completed run holds one "Fueling stop" for every multiple of
\* MILES_PER_FUELING that distance_traveled has reached, the one reached at
\* the end of the route included: two for a 2000-mile route with cycle
\* used = 0.
C10_FuelingPerThousandMiles ==
    pc = "returned" =>
      LET fuelings == StopsWith(route_data.stops, "Fueling stop")
      IN  /\ Cardinality(fuelings) = new_fueling_stops(trip)
          /\ (total_distance = 2000 * Unit /\ current_cycle_used = 0) =>
               Cardinality(fuelings) = 2

\* C11: every step that records a cycle-reset, daily-limit, rest-break or
\* fueling activity appends exactly one stop that carries the reason of that
\* activity and the offset of its start from the trip start; a step that
\* records the pickup, the dropoff or a DRIVING activity appends none.
C11_StopPerCausedActivity ==
    [][ Recorded =>
          LET reason == IF CycleReset THEN "Cycle reset"
                        ELSE IF DailyReset THEN "Daily limit reached"
                        ELSE IF RestBreak THEN "30-minute rest break"
                        ELSE IF Fueling THEN "Fueling stop"
                        ELSE NoReason
          IN  IF reason = NoReason
              THEN trip'.stops = trip.stops
              ELSE /\ Len(trip'.stops) = Len(trip.stops) + 1
                   /\ SubSeq(trip'.stops, 1, Len(trip.stops)) = trip.stops
                   /\ Last(trip'.stops).reason = reason
                   /\ Last(trip'.stops).time =
                        Last(trip'.activities).start_time - trip.start_time ]_vars

\* a descriptor as the caller passed it, with non-empty geometry,
\* distance > 0 and duration <= 0
ZeroDurationRoute ==
    /\ ~route_data.enriched
    /\ route_data.present
    /\ route_data.geometry # << >>
    /\ route_data.distance > 0
    /\ route_data.duration <= 0

InvalidRoute ==
    /\ ~route_data.enriched
    /\ \/ ~route_data.present
       \/ route_data.geometry = << >>
       \/ route_data.distance <= 0

\* C13: a route with a missing field, empty geometry or distance <= 0 is
\* rejected before a TripState exists or any activity is recorded; after any
\* failure, a run that overflowed the date range included, the caller's
\* descriptor holds no stops, no activities, no start_time and its raw
\* duration; within simulate_trip only the return of a run that reached the
\* dropoff writes to it.
C13_FailureLeavesNoTimeline ==
    /\ [] /\ InvalidRoute =>
                /\ pc \notin { "pickup", "driving", "dropped", "returned" }
                /\ trip = NoTrip
          /\ pc = "failed" =>
                /\ ~route_data.enriched
                /\ route_data.stops = << >>
                /\ route_data.activities = << >>
                /\ trip # NoTrip => route_data.duration = total_duration
    /\ [][ (pc # "request" /\ pc' # "returned") =>
             route_data' = route_data ]_vars

\* a run aborted by the date overflow, with activities already recorded
C13_Witness ==
    /\ pc = "failed"
    /\ Len(trip.activities) > 1
    /\ trip.current_time + RESET_DURATION > MaxTime

\* C16: on accepted input remaining_distance is never negative and never
\* increases from one step to the next, and only a DRIVING step changes
\* distance_traveled or remaining_distance.  (The two sums of the claim are
\* left out: they are exact only up to float rounding.)
C16_DistanceAccounting ==
    /\ [](pc # "called" /\ trip # NoTrip => trip.remaining_distance >= 0)
    /\ [][ pc # "called" =>
             /\ trip'.remaining_distance <= trip.remaining_distance
             /\ ~Drive =>
                   /\ trip'.remaining_distance = trip.remaining_distance
                   /\ trip'.distance_traveled = trip.distance_traveled ]_vars

\* the hours covered by a list of activities
RECURSIVE SumDurations(_)
SumDurations(acts) ==
    IF acts = << >> THEN 0 ELSE Duration(acts[1]) + SumDurations(Tail(acts))

\* C17: the duration of a returned descriptor is the sum of the durations
\* of its activities, and is strictly greater than the raw duration of the
\* route.
C17_ReportedDuration ==
    pc = "returned" =>
      /\ route_data.duration = SumDurations(route_data.activities)
      /\ route_data.duration > total_duration

\* a returned descriptor whose duration includes time spent at stops
C17_Witness ==
    /\ pc = "returned"
    /\ route_data.duration > total_duration + PICKUP_TIME + DROPOFF_TIME

\* C18: a loop iteration that starts with distance remaining and does not
\* abort records exactly one activity, the one of the first rule that
\* applies in the order cycle reset (34 h OFF_DUTY), daily reset (10 h
\* OFF_DUTY), rest break (0.5 h OFF_DUTY), fueling (0.5 h
\* ON_DUTY_NOT_DRIVING), drive; a DRIVING activity is recorded only when
\* none of the four stop conditions holds.
C18_FixedPriority ==
    [][ (InLoop /\ pc' # "failed") =>
          LET a == Last(trip'.activities)
              cycle == trip.cycle_hours >= CYCLE_LIMIT
              daily == \/ trip.daily_driving_hours >= MAX_DRIVING_HOURS_PER_DAY
                       \/ trip.daily_on_duty_hours >= MAX_ON_DUTY_HOURS_PER_DAY
              rest == trip.driving_since_break >= BREAK_THRESHOLD
              fuel == trip.distance_traveled \div MILES_PER_FUELING > fueling_stops
          IN  /\ Len(trip'.activities) = Len(trip.activities) + 1
              /\ SubSeq(trip'.activities, 1, Len(trip.activities)) = trip.activities
              /\ IF cycle
                 THEN a.activity_type = "OFF_DUTY" /\ Duration(a) = RESET_DURATION
                 ELSE IF daily
                 THEN a.activity_type = "OFF_DUTY" /\ Duration(a) = MANDATORY_OFF_DUTY
                 ELSE IF rest
                 THEN /\ a.activity_type = "OFF_DUTY"
                      /\ Duration(a) = REST_BREAK_DURATION
                      /\ Len(trip'.stops) = Len(trip.stops) + 1
                      /\ Last(trip'.stops).reason = "30-minute rest break"
                 ELSE IF fuel
                 THEN /\ a.activity_type = "ON_DUTY_NOT_DRIVING"
                      /\ Duration(a) = FUELING_TIME
                      /\ Len(trip'.stops) = Len(trip.stops) + 1
                      /\ Last(trip'.stops).reason = "Fueling stop"
                 ELSE a.activity_type = "DRIVING"
              /\ a.activity_type = "DRIVING" =>
                    ~cycle /\ ~daily /\ ~rest /\ ~fuel ]_vars

\* a rest break has been recorded in a state that also calls for fueling
C18_Witness ==
    /\ pc = "driving"
    /\ trip.stops # << >>
    /\ Last(trip.stops).reason = "30-minute rest break"
    /\ Last(trip.stops).time = Last(trip.activities).start_time - trip.start_time
    /\ trip.distance_traveled \div MILES_PER_FUELING > fueling_stops

\* C19: the table of cumulative distances holds one entry per geometry
\* point, starts at 0 and never decreases; the location of a stop is the
\* geometry point at the start of the first segment whose bracket of
\* cumulative distances contains distance_traveled as it is when the stop
\* is created, and the last geometry point when distance_traveled lies
\* beyond the last cumulative distance.
C19_StopLocation ==
    [][ (Recorded /\ Len(trip'.stops) = Len(trip.stops) + 1) =>
          LET cum == cumulative_distances
              n == Len(geometry)
              d == trip.distance_traveled
              loc == Last(trip'.stops).location
              within(i) == cum[i] <= d /\ d <= cum[i + 1]
          IN  /\ n > 0
              /\ Len(cum) = n
              /\ cum[1] = 0
              /\ \A i \in 1 .. (n - 1) : cum[i] <= cum[i + 1]
              /\ d > cum[n] => loc = geometry[n]
              /\ \A i \in 1 .. (n - 1) :
                    (within(i) /\ \A j \in 1 .. (i - 1) : ~within(j))
                      => loc = geometry[i] ]_vars

\* stops on a three-point route: one inside the second segment, one beyond
\* the end of the geometry
C19_Witness ==
    /\ geometry = GeometryThree
    /\ \E i \in DOMAIN trip.stops : trip.stops[i].location = geometry[2]
    /\ \E i \in DOMAIN trip.stops : trip.stops[i].location = geometry[3]

\* C20: in every state of a run on accepted input driving_since_break is at
\* most 8 h and daily_driving_hours at most 11 h, every DRIVING activity
\* lasts at most 1 h, and a DRIVING activity shorter than 1 h is recorded
\* only by the segment that uses up the last of the route's duration.
C20_CountersWithinLimits ==
    /\ [](pc # "called" =>
            /\ trip.driving_since_break <= BREAK_THRESHOLD
            /\ trip.daily_driving_hours <= MAX_DRIVING_HOURS_PER_DAY
            /\ \A i \in DOMAIN trip.activities :
                  trip.activities[i].activity_type = "DRIVING" =>
                    Duration(trip.activities[i]) <= DRIVING_STEP)
    /\ [][ ( /\ Recorded
             /\ Last(trip'.activities).activity_type = "DRIVING"
             /\ Duration(Last(trip'.activities)) < DRIVING_STEP )
           => trip'.remaining_duration = 0 ]_vars

\* the state right after the DRIVING activity that brings
\* driving_since_break to 8 h
C20_Witness ==
    /\ pc = "driving"
    /\ trip.activities # << >>
    /\ Last(trip.activities).activity_type = "DRIVING"
    /\ Duration(Last(trip.activities)) = DRIVING_STEP
    /\ trip.driving_since_break = BREAK_THRESHOLD

\* C15: the response to a request whose three locations are present, well
\* formed and in range, for which get_route returned a route and
\* simulate_trip returned, has status 200 and holds the route, distance,
\* duration, stops and activities of the descriptor; every other response
\* has status 400 or 500.
C15_SuccessResponse ==
    pc = "responded" =>
      /\ response.status \in { 200, 400, 500 }
      /\ response.status = 200 => WellFormed(request) /\ route_data.enriched
      /\ (WellFormed(request) /\ route_data.enriched) =>
            /\ response.status = 200
            /\ response.body.route = route_data.geometry
            /\ response.body.distance = route_data.distance
            /\ response.body.duration = route_data.duration
            /\ response.body.stops = route_data.stops
            /\ response.body.activities = route_data.activities

====
